---- MODULE Spec2Model ----
(***************************************************************************)
(* A model of the Football API (src/app/main.py): three MongoDB            *)
(* collections (players, teams, matches) behind FastAPI handlers.  Every   *)
(* handler is a coroutine: it runs atomically up to each `await` of a      *)
(* store call, the store applies each call atomically, and the calls of    *)
(* different requests interleave arbitrarily.                              *)
(*                                                                         *)
(* Python values: an Optional value is a sequence, <<>> for None and <<v>> *)
(* for v; a str is a sequence of one-character strings; a datetime is a    *)
(* reading of the clock (an integer); an ObjectId is a natural number and  *)
(* its str() is its hexadecimal text.                                      *)
(***************************************************************************)
EXTENDS Integers, Sequences, FiniteSets, TLC

VARIABLES
    db,         \* db[kind]: the collection, a function _id -> document
    nextOid,    \* the next ObjectId the driver generates on insert_one
    clock,      \* the last reading of datetime.utcnow()
    reqs,       \* reqs[i]: request i, its handler's position and locals
    db0,        \* history: the store as it was before the first request
    born,       \* history: <<kind, _id>> -> the document insert_one stored
    written,    \* history: the <<kind, _id>> an update_one has modified
    deletedOk,  \* history: the <<kind, _id>> whose delete returned 200
    conc        \* history: the requests that overlapped another request

vars == <<db, nextOid, clock, reqs, db0, born, written, deletedOk, conc>>

(***************************** bounds *************************************)
\* Number of requests of a run (all may be in flight together).
MaxReq == 2
\* The clock's readings are 1..MaxClock (the seeded documents carry 0).
MaxClock == 2
\* Requests address the ObjectIds 1..MaxAddr and a malformed identifier.
MaxAddr == 3
\* Number of hexadecimal digits of an ObjectId's text (bson: 24).
OidHexLen == 2

(***************************** values *************************************)
None == <<>>
Some(v) == <<v>>
IsNone(x) == Len(x) = 0

\* A dict with no key.
EmptyDict == [f \in {} |-> None]

Kinds == {"players", "teams", "matches"}

HexDigits == <<"0", "1", "2", "3", "4", "5", "6", "7",
               "8", "9", "a", "b", "c", "d", "e", "f">>

HexValue(c) == CHOOSE d \in 1..16 : HexDigits[d] = c

IsHexChar(c) == \E d \in 1..16 : HexDigits[d] = c

RECURSIVE HexText(_, _)
\* str(ObjectId): the identifier as `width` lowercase hexadecimal digits.
HexText(n, width) ==
    IF width = 0 THEN <<>>
    ELSE Append(HexText(n \div 16, width - 1), HexDigits[(n % 16) + 1])

OidStr(oid) == HexText(oid, OidHexLen)

\* bson.ObjectId(s) raises InvalidId unless s is OidHexLen hex digits.
ObjectIdValid(s) ==
    /\ Len(s) = OidHexLen
    /\ \A p \in 1..Len(s) : IsHexChar(s[p])

RECURSIVE HexParse(_)
HexParse(s) ==
    IF s = <<>> THEN 0
    ELSE 16 * HexParse(SubSeq(s, 1, Len(s) - 1)) + (HexValue(s[Len(s)]) - 1)

\* bson.ObjectId(s) for a valid s.
ObjectId(s) == HexParse(s)

\* An identifier that is no ObjectId text.
MalformedIds == { <<"n", "o", "t", "-", "a", "n", "-", "i", "d">> }

ReqIds == { OidStr(n) : n \in 1..MaxAddr } \cup MalformedIds

(***************************** entity models ******************************)
PlayerFields == {"name", "position", "team_id", "age", "nationality"}
TeamFields == {"name", "country", "league", "stadium"}
MatchFields ==
    {"home_team_id", "away_team_id", "date", "home_score", "away_score", "stadium"}

ModelFields(kind) ==
    CASE kind = "players" -> PlayerFields
      [] kind = "teams" -> TeamFields
      [] kind = "matches" -> MatchFields

\* A model instance with every field None but those of `given`.
Model(kind, given) ==
    [f \in ModelFields(kind) |-> IF f \in DOMAIN given THEN Some(given[f]) ELSE None]

Al == <<"A", "l">>
Bo == <<"b", "o">>
GK == <<"g", "k">>
FR == <<"f", "r">>
L1 == <<"l", "1">>
Sd == <<"s", "d">>

\* PlayerCreate / TeamCreate / MatchCreate bodies: the required fields only,
\* and every field.
CreateBodies(kind) ==
    CASE kind = "players" ->
           { Model(kind, [name |-> Al]),
             Model(kind, [name |-> Al, position |-> GK, team_id |-> OidStr(2),
                          age |-> 25, nationality |-> FR]) }
      [] kind = "teams" ->
           { Model(kind, [name |-> Al]),
             Model(kind, [name |-> Al, country |-> FR, league |-> L1,
                          stadium |-> Sd]) }
      [] kind = "matches" ->
           { Model(kind, [home_team_id |-> OidStr(1), away_team_id |-> OidStr(2)]),
             Model(kind, [home_team_id |-> OidStr(1), away_team_id |-> OidStr(2),
                          date |-> 1, home_score |-> 0, away_score |-> 2,
                          stadium |-> Sd]) }

\* PlayerUpdate / TeamUpdate / MatchUpdate bodies: no field, one field, two
\* fields (one of them shared with the one-field body, another value).
UpdateBodies(kind) ==
    CASE kind = "players" ->
           { Model(kind, EmptyDict), Model(kind, [age |-> 22]),
             Model(kind, [name |-> Bo, age |-> 0]) }
      [] kind = "teams" ->
           { Model(kind, EmptyDict), Model(kind, [league |-> L1]),
             Model(kind, [name |-> Bo, league |-> Sd]) }
      [] kind = "matches" ->
           { Model(kind, EmptyDict), Model(kind, [home_score |-> 3]),
             Model(kind, [away_team_id |-> OidStr(1), home_score |-> 0]) }

(***************************** the store **********************************)
\* A document's value of field f, as Python's doc.get(f): None when absent.
\* is_test, created_at and updated_at are stored bare, the model fields as
\* Optional values (null is stored for a None of a creation body).
HasField(doc, f) == f \in DOMAIN doc

\* A guard that takes a document without is_test for test data.
IsTestData_AbsentPasses(doc) == ~HasField(doc, "is_test") \/ doc["is_test"] = TRUE

\* `existing.get("is_test")` is truthy.
IsTestData(doc) == HasField(doc, "is_test") /\ doc["is_test"] = TRUE

\* collection.find_one({"_id": oid})
FindOne(coll, oid) ==
    IF oid \in DOMAIN coll THEN Some(coll[oid] @@ ("_id" :> oid)) ELSE None

\* collection.insert_one(doc) under the generated identifier oid
InsertOne(coll, oid, doc) == (oid :> doc) @@ coll

\* A $set that fills only the fields the document does not hold yet: the
\* first write of a field wins.
ApplySet_KeepsStored(doc, update_data) ==
    [f \in DOMAIN doc \cup DOMAIN update_data |->
        IF f \in DOMAIN doc THEN doc[f] ELSE update_data[f]]

\* {"$set": update_data} on one document
ApplySet(doc, update_data) ==
    [f \in DOMAIN doc \cup DOMAIN update_data |->
        IF f \in DOMAIN update_data THEN update_data[f] ELSE doc[f]]

\* An update_one with upsert=True.
UpdateOne_Upsert(coll, oid, update_data) ==
    IF oid \in DOMAIN coll
    THEN [coll EXCEPT ![oid] = ApplySet(@, update_data)]
    ELSE (oid :> update_data) @@ coll

\* collection.update_one({"_id": oid}, {"$set": update_data}): no upsert
UpdateOne(coll, oid, update_data) ==
    IF oid \in DOMAIN coll
    THEN [coll EXCEPT ![oid] = ApplySet(@, update_data)]
    ELSE coll

\* A delete by the flag instead of the identifier: every test document of the
\* collection goes with the addressed one.
DeleteOne_ByFlag(coll, oid) ==
    [o \in { x \in DOMAIN coll \ {oid} :
               ~(HasField(coll[x], "is_test") /\ coll[x]["is_test"] = TRUE) } |-> coll[o]]

\* collection.delete_one({"_id": oid})
DeleteOne(coll, oid) == [o \in DOMAIN coll \ {oid} |-> coll[o]]

\* A cleanup whose filter matches every document.
CleanupFilter_All(doc) == HasField(doc, "is_test") \/ TRUE

\* The filter of cleanup_test_data: {"is_test": True}
CleanupFilter(doc) == HasField(doc, "is_test") /\ doc["is_test"] = TRUE

\* collection.delete_many({"is_test": True}): what is left
DeleteMany(coll) ==
    [o \in { x \in DOMAIN coll : ~CleanupFilter(coll[x]) } |-> coll[o]]

\* delete_many(...).deleted_count taken for the size of the collection.
DeletedCount_All(coll) == Cardinality(DOMAIN coll)

\* delete_many(...).deleted_count
DeletedCount(coll) == Cardinality({ x \in DOMAIN coll : CleanupFilter(coll[x]) })

\* serialize_doc: the document with its _id as text; None stays None.
serialize_doc(found) ==
    IF IsNone(found) THEN None
    ELSE Some([found[1] EXCEPT !["_id"] = OidStr(@)])

(***************************** handlers' local code ***********************)
\* A create that forgets to mark the document as test data.
StampCreate_NoFlag(body, now) == body @@ [created_at |-> now]

\* create_*: model_dump(), then is_test = True and created_at = utcnow()
StampCreate(body, now) == body @@ [is_test |-> TRUE, created_at |-> now]

\* An update that forgets `if v is not None`: every field of the model.
SuppliedFields_All(body) == DOMAIN body

\* update_*: {k: v for k, v in model_dump().items() if v is not None}
SuppliedFields(body) == { f \in DOMAIN body : ~IsNone(body[f]) }

\* An update that does not stamp updated_at.
UpdateData_NoStamp(body, now) == [f \in SuppliedFields(body) |-> body[f]]

\* An update that stamps created_at as well.
UpdateData_StampsCreated(body, now) ==
    LET data == [f \in SuppliedFields(body) |-> body[f]]
    IN  IF DOMAIN data # {} THEN data @@ [updated_at |-> now, created_at |-> now]
        ELSE data

\* update_*: update_data, with updated_at when it is not empty
UpdateData(body, now) ==
    LET data == [f \in SuppliedFields(body) |-> body[f]]
    IN  IF DOMAIN data # {} THEN data @@ [updated_at |-> now] ELSE data

(***************************** list filters *******************************)
\* A query parameter is Optional: None when the request does not carry it.
\* `if name:` is false for None and for the empty text.
TruthyText(p) == ~IsNone(p) /\ Len(p[1]) > 0

\* query[key] = value
Put(query, key, value) ==
    [k \in DOMAIN query \cup {key} |-> IF k = key THEN value ELSE query[k]]

\* An upper bound that replaces the condition of the key, the lower bound
\* with it.
SetDefaultLte_Overwrites(query, key, value) ==
    Put(query, key, Put(EmptyDict, "$lte", value))

\* query.setdefault(key, {})["$lte"] = value
SetDefaultLte(query, key, value) ==
    IF key \in DOMAIN query
    THEN Put(query, key, Put(query[key], "$lte", value))
    ELSE Put(query, key, Put(EmptyDict, "$lte", value))

\* A player query that tests is_test for truth (`if is_test:`), so that an
\* explicit false adds no key.
PlayerQuery_IsTestTruthy(p) ==
    LET q1 == IF TruthyText(p.name) THEN Put(EmptyDict, "name", p.name[1]) ELSE EmptyDict
        q2 == IF TruthyText(p.position) THEN Put(q1, "position", p.position[1]) ELSE q1
        q3 == IF TruthyText(p.team_id) THEN Put(q2, "team_id", p.team_id[1]) ELSE q2
        q4 == IF TruthyText(p.nationality)
              THEN Put(q3, "nationality", p.nationality[1]) ELSE q3
        q5 == IF ~IsNone(p.min_age)
              THEN Put(q4, "age", Put(EmptyDict, "$gte", p.min_age[1])) ELSE q4
        q6 == IF ~IsNone(p.max_age) THEN SetDefaultLte(q5, "age", p.max_age[1]) ELSE q5
    IN  IF ~IsNone(p.is_test) /\ p.is_test[1] THEN Put(q6, "is_test", p.is_test[1]) ELSE q6

\* get_players: the query dict
PlayerQuery(p) ==
    LET q1 == IF TruthyText(p.name) THEN Put(EmptyDict, "name", p.name[1]) ELSE EmptyDict
        q2 == IF TruthyText(p.position) THEN Put(q1, "position", p.position[1]) ELSE q1
        q3 == IF TruthyText(p.team_id) THEN Put(q2, "team_id", p.team_id[1]) ELSE q2
        q4 == IF TruthyText(p.nationality)
              THEN Put(q3, "nationality", p.nationality[1]) ELSE q3
        q5 == IF ~IsNone(p.min_age)
              THEN Put(q4, "age", Put(EmptyDict, "$gte", p.min_age[1])) ELSE q4
        q6 == IF ~IsNone(p.max_age) THEN SetDefaultLte(q5, "age", p.max_age[1]) ELSE q5
    IN  IF ~IsNone(p.is_test) THEN Put(q6, "is_test", p.is_test[1]) ELSE q6

\* get_teams: the query dict
TeamQuery(p) ==
    LET q1 == IF TruthyText(p.name) THEN Put(EmptyDict, "name", p.name[1]) ELSE EmptyDict
        q2 == IF TruthyText(p.country) THEN Put(q1, "country", p.country[1]) ELSE q1
        q3 == IF TruthyText(p.league) THEN Put(q2, "league", p.league[1]) ELSE q2
    IN  IF ~IsNone(p.is_test) THEN Put(q3, "is_test", p.is_test[1]) ELSE q3

\* A match query whose team_id filter is stored under home_team_id: it
\* replaces the home_team_id filter and ignores the away team.
MatchQuery_TeamAsHome(p) ==
    LET q1 == IF TruthyText(p.home_team_id)
              THEN Put(EmptyDict, "home_team_id", p.home_team_id[1]) ELSE EmptyDict
        q2 == IF TruthyText(p.away_team_id)
              THEN Put(q1, "away_team_id", p.away_team_id[1]) ELSE q1
        q3 == IF TruthyText(p.team_id)
              THEN Put(q2, "home_team_id", p.team_id[1])
              ELSE q2
        q4 == IF TruthyText(p.stadium) THEN Put(q3, "stadium", p.stadium[1]) ELSE q3
        q5 == IF ~IsNone(p.date_from)
              THEN Put(q4, "date", Put(EmptyDict, "$gte", p.date_from[1])) ELSE q4
        q6 == IF ~IsNone(p.date_to) THEN SetDefaultLte(q5, "date", p.date_to[1]) ELSE q5
    IN  IF ~IsNone(p.is_test) THEN Put(q6, "is_test", p.is_test[1]) ELSE q6

\* get_matches: the query dict (a datetime is truthy whenever it is given)
MatchQuery(p) ==
    LET q1 == IF TruthyText(p.home_team_id)
              THEN Put(EmptyDict, "home_team_id", p.home_team_id[1]) ELSE EmptyDict
        q2 == IF TruthyText(p.away_team_id)
              THEN Put(q1, "away_team_id", p.away_team_id[1]) ELSE q1
        q3 == IF TruthyText(p.team_id)
              THEN Put(q2, "$or", << Put(EmptyDict, "home_team_id", p.team_id[1]),
                                     Put(EmptyDict, "away_team_id", p.team_id[1]) >>)
              ELSE q2
        q4 == IF TruthyText(p.stadium) THEN Put(q3, "stadium", p.stadium[1]) ELSE q3
        q5 == IF ~IsNone(p.date_from)
              THEN Put(q4, "date", Put(EmptyDict, "$gte", p.date_from[1])) ELSE q4
        q6 == IF ~IsNone(p.date_to) THEN SetDefaultLte(q5, "date", p.date_to[1]) ELSE q5
    IN  IF ~IsNone(p.is_test) THEN Put(q6, "is_test", p.is_test[1]) ELSE q6

BuildQuery(kind, p) ==
    CASE kind = "players" -> PlayerQuery(p)
      [] kind = "teams" -> TeamQuery(p)
      [] kind = "matches" -> MatchQuery(p)

RegexKeys == {"name", "position", "nationality", "country", "league", "stadium"}
EqualKeys == {"team_id", "home_team_id", "away_team_id"}
RangeKeys == {"age", "date"}

\* Case folding of {"$options": "i"}.
Lower(c) ==
    CASE c = "A" -> "a"
      [] c = "B" -> "b"
      [] c = "L" -> "l"
      [] c = "O" -> "o"
      [] OTHER -> c

\* One pattern character against one character: "." matches any character,
\* every other character of the model's alphabet matches itself.
CharMatch(pc, c) == pc = "." \/ Lower(pc) = Lower(c)

\* {"$regex": pat, "$options": "i"}: the pattern is searched in the text.
RegexSearch(pat, text) ==
    \E off \in 0..(Len(text) - Len(pat)) :
        \A q \in 1..Len(pat) : CharMatch(pat[q], text[off + q])

\* The stored value of a model field is there and is not null.
HasValue(doc, f) == HasField(doc, f) /\ ~IsNone(doc[f])

\* {"$gte": a, "$lte": b} (either may be missing) on a value
InRange(cond, v) ==
    /\ "$gte" \in DOMAIN cond => v >= cond["$gte"]
    /\ "$lte" \in DOMAIN cond => v <= cond["$lte"]

\* One key of a query on a document (MongoDB's matching: a missing or null
\* field matches no regex, no range and no value).
MatchKey(doc, key, cond) ==
    CASE key \in RegexKeys -> HasValue(doc, key) /\ RegexSearch(cond, doc[key][1])
      [] key \in EqualKeys -> HasValue(doc, key) /\ doc[key][1] = cond
      [] key \in RangeKeys -> HasValue(doc, key) /\ InRange(cond, doc[key][1])
      [] key = "is_test" -> HasField(doc, key) /\ doc[key] = cond
      [] key = "$or" ->
           \E n \in 1..Len(cond) :
               \A k \in DOMAIN cond[n] :
                   HasValue(doc, k) /\ doc[k][1] = cond[n][k]

\* collection.find(query): the identifiers of the matching documents
Matching(coll, query) ==
    { o \in DOMAIN coll : \A key \in DOMAIN query : MatchKey(coll[o], key, query[key]) }

\* The orders in which the store may return a set of documents (no sort is
\* asked for, so none is guaranteed).
Orders(S) ==
    { s \in [1..Cardinality(S) -> S] : \A a, b \in 1..Cardinality(S) : a # b => s[a] # s[b] }

Min(a, b) == IF a < b THEN a ELSE b

\* A page cut to `limit` documents before `skip` of them are dropped.
Page_LimitBeforeSkip(order, skip, limit) ==
    SubSeq(order, skip + 1, Min(Len(order), limit))

\* cursor.skip(skip).limit(limit) on the documents in one order
Page(order, skip, limit) == SubSeq(order, skip + 1, Min(Len(order), skip + limit))

(***************************** requests ***********************************)
Reqs == 1..MaxReq

\* A request before it arrives.  status 0: no response yet.  History kept
\* with the request: calls, the store calls it has issued; after_delete,
\* whether its document had been deleted when it arrived; write_no, the rank
\* of its update_one among those that modified a document (0: none yet);
\* store_error, whether one of its store calls raised.
IdleReq ==
    [pc |-> "idle", op |-> "none", kind |-> "none", id |-> <<>>,
     body |-> EmptyDict, update_data |-> EmptyDict, now |-> 0,
     status |-> 0, resp |-> <<>>, calls |-> 0, after_delete |-> FALSE,
     write_no |-> 0, store_error |-> FALSE]

Active(r) == r.pc \notin {"idle", "done"}

\* The handler returns (or raises HTTPException): the response.
Respond(r, status, resp) == [r EXCEPT !.pc = "done", !.status = status, !.resp = resp]

\* One more store call issued by the request.
Called(r) == [r EXCEPT !.calls = @ + 1]

\* Query parameters of the list requests: no filter; is_test with a page;
\* a text filter with a range (players, matches) or with is_test (teams).
NoParams(kind) ==
    CASE kind = "players" ->
           [name |-> None, position |-> None, team_id |-> None, nationality |-> None,
            min_age |-> None, max_age |-> None, is_test |-> None,
            limit |-> 100, skip |-> 0]
      [] kind = "teams" ->
           [name |-> None, country |-> None, league |-> None, is_test |-> None,
            limit |-> 100, skip |-> 0]
      [] kind = "matches" ->
           [home_team_id |-> None, away_team_id |-> None, team_id |-> None,
            stadium |-> None, date_from |-> None, date_to |-> None, is_test |-> None,
            limit |-> 100, skip |-> 0]

ListParams(kind) ==
    CASE kind = "players" ->
           { NoParams(kind),
             [NoParams(kind) EXCEPT !.is_test = Some(TRUE), !.limit = 1, !.skip = 1],
             [NoParams(kind) EXCEPT !.name = Some(<<"a", ".">>), !.min_age = Some(20),
                                    !.max_age = Some(30)] }
      [] kind = "teams" ->
           { NoParams(kind),
             [NoParams(kind) EXCEPT !.is_test = Some(TRUE), !.limit = 1, !.skip = 1],
             [NoParams(kind) EXCEPT !.name = Some(<<"L">>), !.is_test = Some(FALSE)] }
      [] kind = "matches" ->
           { NoParams(kind),
             [NoParams(kind) EXCEPT !.is_test = Some(TRUE), !.limit = 1, !.skip = 1],
             [NoParams(kind) EXCEPT !.team_id = Some(OidStr(1)), !.date_from = Some(0),
                                    !.date_to = Some(1)] }

(***************************** initial store ******************************)
\* Documents put in the store directly, before any request.  Each collection
\* holds one production document (_id 1: is_test false, or no is_test at
\* all) and one test document (_id 2), as a create at time 0 stores it.
ProdFlags == {"absent", "false"}

ProdFields(kind) ==
    CASE kind = "players" -> [name |-> Some(Al), age |-> Some(25)]
      [] kind = "teams" -> [name |-> Some(Al), league |-> Some(L1)]
      [] kind = "matches" ->
           [home_team_id |-> Some(OidStr(1)), away_team_id |-> Some(OidStr(2)),
            date |-> Some(1)]

SeedProd(kind, flag) ==
    IF flag = "false"
    THEN ProdFields(kind) @@ [is_test |-> FALSE, created_at |-> 0, updated_at |-> 0]
    ELSE ProdFields(kind)

FullBody(kind) == CHOOSE b \in CreateBodies(kind) : \A f \in DOMAIN b : ~IsNone(b[f])

SeedTest(kind) == StampCreate(FullBody(kind), 0)

SeedStore(flag) == [k \in Kinds |-> (1 :> SeedProd(k, flag)) @@ (2 :> SeedTest(k))]

Init ==
    /\ \E flag \in ProdFlags : db = SeedStore(flag)
    /\ nextOid = 3
    /\ clock = 1
    /\ reqs = [i \in Reqs |-> IdleReq]
    /\ db0 = db
    /\ born = [x \in {} |-> EmptyDict]
    /\ written = {}
    /\ deletedOk = {}
    /\ conc = {}

(***************************** actions ************************************)
\* A request arrives: requests are numbered in their order of arrival.
Arrive(i, r) ==
    /\ reqs[i].pc = "idle"
    /\ IF i = 1 THEN TRUE ELSE reqs[i - 1].pc # "idle"
    /\ reqs' = [reqs EXCEPT ![i] = r]
    /\ conc' = IF \E j \in Reqs : Active(reqs[j])
               THEN conc \cup {i} \cup { j \in Reqs : Active(reqs[j]) }
               ELSE conc

\* The request's identifier was deleted with success before it arrived.
AfterDelete(kind, id) == ObjectIdValid(id) /\ <<kind, ObjectId(id)>> \in deletedOk

\* GET, PUT, DELETE /{collection}/{id}: the handler is entered.
StartById(i, op) ==
    /\ \E k \in Kinds, id \in ReqIds :
          Arrive(i, [IdleReq EXCEPT !.pc = "find", !.op = op, !.kind = k, !.id = id,
                                    !.after_delete = AfterDelete(k, id)])
    /\ UNCHANGED <<db, nextOid, clock, db0, born, written, deletedOk>>

StartGet(i) == StartById(i, "get")
StartUpdate(i) == StartById(i, "update")
StartDelete(i) == StartById(i, "delete")

\* get_player, get_team, get_match
GetFind(i) ==
    LET r == reqs[i] IN
    /\ r.op = "get" /\ r.pc = "find"
    /\ reqs' = [reqs EXCEPT ![i] =
          IF ~ObjectIdValid(r.id) THEN Respond(r, 400, None)
          ELSE LET found == FindOne(db[r.kind], ObjectId(r.id))
               IN  IF IsNone(found) THEN Respond(Called(r), 404, None)
                   ELSE Respond(Called(r), 200, serialize_doc(found))]
    /\ UNCHANGED <<db, nextOid, clock, db0, born, written, deletedOk, conc>>

\* A guard that answers a missing document like a malformed identifier.
GuardStatus_MissingAs400(found) ==
    IF IsNone(found) THEN 400
    ELSE IF ~IsTestData(found[1]) THEN 403
    ELSE 0

\* The guard of update_* and delete_*: 0 when the request may proceed, else
\* the status of the HTTPException.
GuardStatus(found) ==
    IF IsNone(found) THEN 404
    ELSE IF ~IsTestData(found[1]) THEN 403
    ELSE 0

\* update_*: the lookup, the guard, and update_data with its timestamp.
\* The body came with the request; it is first read here, so it is drawn
\* here.  utcnow() is read only when update_data is not empty.
UpdateGuard(i) ==
    LET r == reqs[i] IN
    /\ r.op = "update" /\ r.pc = "find"
    /\ IF ~ObjectIdValid(r.id)
       THEN /\ reqs' = [reqs EXCEPT ![i] = Respond(r, 400, None)]
            /\ clock' = clock
       ELSE LET status == GuardStatus(FindOne(db[r.kind], ObjectId(r.id))) IN
            IF status # 0
            THEN /\ reqs' = [reqs EXCEPT ![i] = Respond(Called(r), status, None)]
                 /\ clock' = clock
            ELSE \E body \in UpdateBodies(r.kind) :
                    IF SuppliedFields(body) = {}
                    THEN /\ reqs' = [reqs EXCEPT ![i] =
                                [Called(r) EXCEPT !.pc = "reread", !.body = body]]
                         /\ clock' = clock
                    ELSE \E t \in clock..MaxClock :
                         /\ reqs' = [reqs EXCEPT ![i] =
                                [Called(r) EXCEPT !.pc = "write", !.body = body,
                                    !.now = t, !.update_data = UpdateData(body, t)]]
                         /\ clock' = t
    /\ UNCHANGED <<db, nextOid, db0, born, written, deletedOk, conc>>

\* update_*: the store applies update_one
UpdateWrite(i) ==
    LET r == reqs[i]
        oid == ObjectId(r.id)
    IN
    /\ r.op = "update" /\ r.pc = "write"
    /\ db' = [db EXCEPT ![r.kind] = UpdateOne(@, oid, r.update_data)]
    /\ written' = IF oid \in DOMAIN db[r.kind] THEN written \cup {<<r.kind, oid>>}
                  ELSE written
    /\ reqs' = [reqs EXCEPT ![i] =
          [Called(r) EXCEPT !.pc = "reread",
               !.write_no = IF oid \in DOMAIN db[r.kind]
                            THEN 1 + Cardinality({ j \in Reqs : reqs[j].write_no > 0 })
                            ELSE 0]]
    /\ UNCHANGED <<nextOid, clock, db0, born, deletedOk, conc>>

\* update_*: the final find_one and the response
UpdateReread(i) ==
    LET r == reqs[i] IN
    /\ r.op = "update" /\ r.pc = "reread"
    /\ reqs' = [reqs EXCEPT ![i] =
          Respond(Called(r), 200, serialize_doc(FindOne(db[r.kind], ObjectId(r.id))))]
    /\ UNCHANGED <<db, nextOid, clock, db0, born, written, deletedOk, conc>>

\* delete_*: the lookup and the guard
DeleteGuard(i) ==
    LET r == reqs[i] IN
    /\ r.op = "delete" /\ r.pc = "find"
    /\ reqs' = [reqs EXCEPT ![i] =
          IF ~ObjectIdValid(r.id) THEN Respond(r, 400, None)
          ELSE LET status == GuardStatus(FindOne(db[r.kind], ObjectId(r.id)))
               IN  IF status # 0 THEN Respond(Called(r), status, None)
                   ELSE [Called(r) EXCEPT !.pc = "remove"]]
    /\ UNCHANGED <<db, nextOid, clock, db0, born, written, deletedOk, conc>>

DeletedMessage == [message |-> "deleted successfully"]

\* delete_*: the store applies delete_one, and the response
DeleteRemove(i) ==
    LET r == reqs[i]
        oid == ObjectId(r.id)
    IN
    /\ r.op = "delete" /\ r.pc = "remove"
    /\ db' = [db EXCEPT ![r.kind] = DeleteOne(@, oid)]
    /\ deletedOk' = deletedOk \cup {<<r.kind, oid>>}
    /\ reqs' = [reqs EXCEPT ![i] = Respond(Called(r), 200, Some(DeletedMessage))]
    /\ UNCHANGED <<nextOid, clock, db0, born, written, conc>>

\* create_*: the handler is entered; the document is stamped with a reading
\* of the clock, which never runs backwards.
StartCreate(i) ==
    /\ \E k \in Kinds, t \in clock..MaxClock :
          /\ \E body \in CreateBodies(k) :
                Arrive(i, [IdleReq EXCEPT !.pc = "insert", !.op = "create", !.kind = k,
                                          !.body = body, !.now = t])
          /\ clock' = t
    /\ UNCHANGED <<db, nextOid, db0, born, written, deletedOk>>

\* create_*: the store applies insert_one under a generated _id, the response
CreateInsert(i) ==
    LET r == reqs[i]
        doc == StampCreate(r.body, r.now)
    IN
    /\ r.op = "create" /\ r.pc = "insert"
    /\ db' = [db EXCEPT ![r.kind] = InsertOne(@, nextOid, doc)]
    /\ nextOid' = nextOid + 1
    /\ born' = (<<r.kind, nextOid>> :> doc) @@ born
    /\ reqs' = [reqs EXCEPT ![i] =
          Respond(Called(r), 201, Some(doc @@ ("_id" :> OidStr(nextOid))))]
    /\ UNCHANGED <<clock, db0, written, deletedOk, conc>>

\* get_players, get_teams, get_matches: the handler is entered
StartList(i) ==
    /\ \E k \in Kinds : \E p \in ListParams(k) :
          Arrive(i, [IdleReq EXCEPT !.pc = "list", !.op = "list", !.kind = k, !.body = p])
    /\ UNCHANGED <<db, nextOid, clock, db0, born, written, deletedOk>>

\* get_players, get_teams, get_matches: find(query).skip(skip).limit(limit)
ListFind(i) ==
    LET r == reqs[i]
        coll == db[r.kind]
    IN
    /\ r.op = "list" /\ r.pc = "list"
    /\ \E order \in Orders(Matching(coll, BuildQuery(r.kind, r.body))) :
          LET page == Page(order, r.body.skip, r.body.limit) IN
          reqs' = [reqs EXCEPT ![i] =
              Respond(Called(r), 200,
                      [n \in 1..Len(page) |-> serialize_doc(FindOne(coll, page[n]))[1]])]
    /\ UNCHANGED <<db, nextOid, clock, db0, born, written, deletedOk, conc>>

\* cleanup_test_data: the handler is entered
StartCleanup(i) ==
    /\ Arrive(i, [IdleReq EXCEPT !.pc = "clean_players", !.op = "cleanup",
                                 !.resp = EmptyDict])
    /\ UNCHANGED <<db, nextOid, clock, db0, born, written, deletedOk>>

\* cleanup_test_data: one delete_many; after the third, the response
CleanupStep(i, kind, next) ==
    LET r == reqs[i]
        counts == Put(r.resp, kind, DeletedCount(db[kind]))
    IN
    /\ r.op = "cleanup" /\ r.pc = "clean_" \o kind
    /\ db' = [db EXCEPT ![kind] = DeleteMany(@)]
    /\ reqs' = [reqs EXCEPT ![i] =
          IF next = "done" THEN Respond(Called(r), 200, counts)
          ELSE [Called(r) EXCEPT !.pc = next, !.resp = counts]]
    /\ UNCHANGED <<nextOid, clock, db0, born, written, deletedOk, conc>>

CleanupPlayers(i) == CleanupStep(i, "players", "clean_teams")
CleanupTeams(i) == CleanupStep(i, "teams", "clean_matches")
CleanupMatches(i) == CleanupStep(i, "matches", "done")

\* A store call raises (the store is unavailable).  The guard lookups and
\* get's lookup sit in `try ... except Exception`, which answers 400; any
\* other call's exception leaves the handler: a server error (500).
StoreFails(i) ==
    LET r == reqs[i] IN
    /\ Active(r)
    /\ r.pc = "find" => ObjectIdValid(r.id)
    /\ reqs' = [reqs EXCEPT ![i] =
          Respond([Called(r) EXCEPT !.store_error = TRUE],
                  IF r.pc = "find" THEN 400 ELSE 500, None)]
    /\ UNCHANGED <<db, nextOid, clock, db0, born, written, deletedOk, conc>>

Step(i) ==
    \/ StartGet(i) \/ GetFind(i)
    \/ StartCreate(i) \/ CreateInsert(i)
    \/ StartUpdate(i) \/ UpdateGuard(i) \/ UpdateWrite(i) \/ UpdateReread(i)
    \/ StartDelete(i) \/ DeleteGuard(i) \/ DeleteRemove(i)
    \/ StartList(i) \/ ListFind(i)
    \/ StartCleanup(i) \/ CleanupPlayers(i) \/ CleanupTeams(i) \/ CleanupMatches(i)

Next == \E i \in Reqs : Step(i)

\* The store answers every call.
Spec == Init /\ [][Next]_vars

NextFail == Next \/ \E i \in Reqs : StoreFails(i)

\* The store may fail any call.
SpecFail == Init /\ [][NextFail]_vars

(***************************** the list handlers alone ********************)
\* A list request issues one find and writes nothing, so what a list can
\* return is a function of the stored documents and of its parameters.  The
\* specification below draws the store from ListStores and lets one request
\* list any collection under every combination of the parameter values.

\* Texts of query parameters: case differs from the stored text; a regular
\* expression's wildcard; the empty text (as in `?name=`).
AL == <<"a", "L">>
ADot == <<"a", ".">>
NoText == <<>>

\* The documents of a collection: the production document and the test
\* document of SeedStore, and documents created with some fields left out
\* (stored as null).
ListDocs(kind, flag) ==
    CASE kind = "players" ->
           (1 :> SeedProd(kind, flag)) @@ (2 :> SeedTest(kind))
           @@ (3 :> StampCreate(Model(kind, [name |-> Bo, team_id |-> OidStr(1),
                                             age |-> 0]), 1))
           @@ (4 :> StampCreate(Model(kind, [name |-> Bo, position |-> GK]), 1))
      [] kind = "teams" ->
           (1 :> SeedProd(kind, flag)) @@ (2 :> SeedTest(kind))
           @@ (3 :> StampCreate(Model(kind, [name |-> Bo, country |-> FR]), 1))
      [] kind = "matches" ->
           (1 :> SeedProd(kind, flag)) @@ (2 :> SeedTest(kind))
           @@ (3 :> StampCreate(Model(kind, [home_team_id |-> OidStr(2),
                                             away_team_id |-> OidStr(3),
                                             date |-> 0]), 1))

ListStore(flag) == [k \in Kinds |-> ListDocs(k, flag)]

Opt(S) == {None} \cup { Some(v) : v \in S }

\* The filter parameters of a list request, limit and skip at their defaults.
FilterParams(kind) ==
    CASE kind = "players" ->
           [name : Opt({AL, ADot, NoText}), position : Opt({GK}),
            team_id : Opt({OidStr(1), NoText}), nationality : Opt({FR}),
            min_age : Opt({0, 20, 26}), max_age : Opt({0, 24, 30}),
            is_test : Opt({TRUE, FALSE}), limit : {100}, skip : {0}]
      [] kind = "teams" ->
           [name : Opt({AL, ADot, NoText}), country : Opt({FR}), league : Opt({L1}),
            is_test : Opt({TRUE, FALSE}), limit : {100}, skip : {0}]
      [] kind = "matches" ->
           [home_team_id : Opt({OidStr(1), OidStr(2)}),
            away_team_id : Opt({OidStr(2), OidStr(3)}),
            team_id : Opt({OidStr(1), OidStr(2), NoText}), stadium : Opt({Sd}),
            date_from : Opt({0, 1}), date_to : Opt({0, 1}),
            is_test : Opt({TRUE, FALSE}), limit : {100}, skip : {0}]

\* limit: int = Query(100, ge=1, le=1000), skip: int = Query(0, ge=0)
Limits == {1, 2, 3, 100, 1000}
Skips == {0, 1, 2, 5}

\* The pages asked for: of everything, and of the is_test = true documents.
PagedParams(kind) ==
    { [p EXCEPT !.limit = l, !.skip = s] :
          p \in {NoParams(kind), [NoParams(kind) EXCEPT !.is_test = Some(TRUE)]},
          l \in Limits, s \in Skips }

AllListParams(kind) == FilterParams(kind) \cup PagedParams(kind)

InitList ==
    /\ \E flag \in ProdFlags : db = ListStore(flag)
    /\ nextOid = 5
    /\ clock = 1
    /\ reqs = [i \in Reqs |-> IdleReq]
    /\ db0 = db
    /\ born = [x \in {} |-> EmptyDict]
    /\ written = {}
    /\ deletedOk = {}
    /\ conc = {}

\* get_players, get_teams, get_matches: the handler is entered, under any of
\* the parameter combinations
StartListAny(i) ==
    /\ \E k \in Kinds : \E p \in AllListParams(k) :
          Arrive(i, [IdleReq EXCEPT !.pc = "list", !.op = "list", !.kind = k, !.body = p])
    /\ UNCHANGED <<db, nextOid, clock, db0, born, written, deletedOk>>

NextList == StartListAny(1) \/ ListFind(1)

\* One list request on a store nothing else writes to.
SpecList == InitList /\ [][NextList]_vars

(***************************** claims *************************************)
ById == {"get", "update", "delete"}

Done(r) == r.pc = "done"

\* The document carries is_test = true (it is test data as the spec defines
\* it: anything else, false or absent, is production data).
MarkedTest(doc) == "is_test" \in DOMAIN doc /\ doc["is_test"] = TRUE

\* The request addresses a production document of the initial store.
OnProduction(r) ==
    /\ ObjectIdValid(r.id)
    /\ ObjectId(r.id) \in DOMAIN db0[r.kind]
    /\ ~MarkedTest(db0[r.kind][ObjectId(r.id)])

\* The document the request addresses is stored.
Stored(r) == ObjectId(r.id) \in DOMAIN db[r.kind]

Target(r) == db[r.kind][ObjectId(r.id)]

\* C1: an update or a delete of an existing document whose is_test is false
\* or absent is answered 403 after the lookup alone, and the document is
\* stored as it was, updated_at included.
C1_ForbiddenLeavesRecord ==
    \A i \in Reqs :
        LET r == reqs[i] IN
        (r.op \in {"update", "delete"} /\ Done(r) /\ OnProduction(r)) =>
            /\ r.status = 403
            /\ r.calls = 1
            /\ Stored(r)
            /\ Target(r) = db0[r.kind][ObjectId(r.id)]

\* An update and a delete of production documents of two kinds were refused.
C1_Witness ==
    \E i, j \in Reqs :
        /\ reqs[i].op = "update" /\ reqs[j].op = "delete"
        /\ reqs[i].kind # reqs[j].kind
        /\ \A n \in {i, j} :
              Done(reqs[n]) /\ OnProduction(reqs[n]) /\ reqs[n].status = 403

\* C2: whatever requests interleave (and whatever store calls fail), every
\* document that was stored with is_test false or absent is still stored,
\* unchanged.
C2_ProductionPreserved ==
    \A k \in Kinds : \A o \in DOMAIN db0[k] :
        ~MarkedTest(db0[k][o]) => (o \in DOMAIN db[k] /\ db[k][o] = db0[k][o])

\* A cleanup and a delete of a production document ran concurrently, both to
\* their end.
C2_Witness ==
    \E i, j \in conc :
        /\ reqs[i].op = "cleanup" /\ Done(reqs[i]) /\ reqs[i].status = 200
        /\ reqs[j].op = "delete" /\ Done(reqs[j]) /\ OnProduction(reqs[j])

\* What the insert step of create request i does.
C3_CreateStep(i) ==
    LET r == reqs[i]
        k == r.kind
        new == DOMAIN db'[k] \ DOMAIN db[k]
    IN
    (r.pc = "insert" /\ reqs'[i].pc = "done") =>
        /\ reqs'[i].status = 201
        /\ Cardinality(new) = 1
        /\ \A o \in DOMAIN db[k] : o \in DOMAIN db'[k] /\ db'[k][o] = db[k][o]
        /\ \A k2 \in Kinds \ {k} : db'[k2] = db[k2]
        /\ \A o \in new :
              LET doc == db'[k][o] IN
              /\ \A k2 \in Kinds : o \notin DOMAIN db[k2]
              /\ MarkedTest(doc)
              /\ HasField(doc, "created_at") /\ doc["created_at"] = r.now
              /\ r.now \in 1..MaxClock
              /\ \A f \in DOMAIN r.body : HasField(doc, f) /\ doc[f] = r.body[f]
              /\ DOMAIN doc = DOMAIN r.body \cup {"is_test", "created_at"}
              /\ reqs'[i].resp = Some(doc @@ ("_id" :> OidStr(o)))

\* C3: the insert of a create adds one document to the request's collection,
\* under an identifier no stored document has, with is_test true, created_at
\* and the body's fields; the response is 201 with that document and the
\* identifier's text; nothing else changes in the store.
C3_CreateAddsTestRecord == [][\A i \in Reqs : C3_CreateStep(i)]_vars

\* Two creates of different kinds were answered 201.
C3_Witness ==
    \E i, j \in Reqs :
        /\ reqs[i].kind # reqs[j].kind
        /\ \A n \in {i, j} :
              reqs[n].op = "create" /\ Done(reqs[n]) /\ reqs[n].status = 201

\* is_test and created_at of doc are those of orig (there or not, and equal).
SameLifecycle(doc, orig) ==
    \A f \in {"is_test", "created_at"} :
        /\ HasField(doc, f) <=> HasField(orig, f)
        /\ HasField(doc, f) => doc[f] = orig[f]

\* C4: every stored document is under the identifier it was first stored
\* under, with the is_test and the created_at it was first stored with; one
\* created through the API has is_test true.
C4_LifecycleImmutable ==
    \A k \in Kinds : \A o \in DOMAIN db[k] :
        IF <<k, o>> \in DOMAIN born
        THEN /\ SameLifecycle(db[k][o], born[<<k, o>>])
             /\ MarkedTest(db[k][o])
             /\ HasField(db[k][o], "created_at")
        ELSE /\ o \in DOMAIN db0[k]
             /\ SameLifecycle(db[k][o], db0[k][o])

\* A document created through the API was updated and is stored.
C4_Witness ==
    \E w \in written : w \in DOMAIN born /\ w[2] \in DOMAIN db[w[1]]

\* The fields an update body supplies (those that are not None).
Supplied(body) == { f \in DOMAIN body : body[f] # None }

WellFormed(id) == id \in ReqIds \ MalformedIds

\* Request i is an update of document o of collection k that supplies a
\* field and whose update_one the store has applied (it is at its final
\* lookup, or it has made it: its third store call).
Wrote(i, k, o) ==
    LET r == reqs[i] IN
    /\ r.op = "update" /\ r.kind = k
    /\ WellFormed(r.id) /\ ObjectId(r.id) = o
    /\ Supplied(r.body) # {}
    /\ r.pc = "reread" \/ (Done(r) /\ r.calls = 3)

\* An update that has returned success.
UpdateOk(r) == r.op = "update" /\ Done(r) /\ r.status = 200

\* A test document has updated_at exactly when an update has written to it.
UpdatedAtIffWritten ==
    \A k \in Kinds : \A o \in DOMAIN db[k] :
        MarkedTest(db[k][o]) =>
            (HasField(db[k][o], "updated_at") <=> \E i \in Reqs : Wrote(i, k, o))

C6_UpdateStep(i) ==
    LET r == reqs[i]
        k == r.kind
        o == ObjectId(r.id)
        sup == Supplied(r.body)
    IN
    /\ (r.op = "update" /\ r.pc = "find" /\ reqs'[i].pc # "find") => db' = db
    /\ (r.op = "update" /\ r.pc = "write" /\ reqs'[i].pc = "reread"
            /\ o \in DOMAIN db[k]) =>
          /\ sup # {}
          /\ o \in DOMAIN db'[k]
          /\ DOMAIN db'[k][o] = DOMAIN db[k][o] \cup sup \cup {"updated_at"}
          /\ \A f \in sup : db'[k][o][f] = r.body[f]
          /\ \A f \in DOMAIN db[k][o] \ (sup \cup {"updated_at"}) :
                db'[k][o][f] = db[k][o][f]
          /\ \A f \in DOMAIN db[k][o] \cap ModelFields(k) :
                db[k][o][f] # None => db'[k][o][f] # None

\* C6: the update_one of an update overwrites, in a stored document, the
\* fields the body supplies with the supplied values and sets updated_at;
\* every other field keeps its value, no field is removed and none that had
\* a value becomes null.  An update that supplies no field writes nothing.
C6_PartialMerge == [][\A i \in Reqs : C6_UpdateStep(i)]_vars

\* An update that supplies two fields has written to a stored document, and
\* fields it does not supply hold their values.
C6_Witness ==
    \E i \in Reqs :
        /\ Wrote(i, reqs[i].kind, ObjectId(reqs[i].id))
        /\ Stored(reqs[i])
        /\ Cardinality(Supplied(reqs[i].body)) = 2
        /\ \E f \in ModelFields(reqs[i].kind) \ Supplied(reqs[i].body) :
              HasField(Target(reqs[i]), f) /\ Target(reqs[i])[f] # None

\* C7: a document whose delete was answered 200 is not stored, ever again,
\* and every get, update or delete of it that arrives afterwards is answered
\* 404.
C7_DeletedStaysDeleted ==
    /\ \A d \in deletedOk : d[2] \notin DOMAIN db[d[1]]
    /\ \A i \in Reqs :
          LET r == reqs[i] IN
          (r.op \in ById /\ Done(r) /\ r.after_delete) => r.status = 404

\* A get, an update or a delete that arrived after the delete of its
\* document was answered.
C7_Witness ==
    \E i \in Reqs :
        /\ reqs[i].op \in ById /\ Done(reqs[i]) /\ reqs[i].after_delete
        /\ <<reqs[i].kind, ObjectId(reqs[i].id)>> \in deletedOk

\* What the lookup step of request i (a get, an update or a delete) does.
C8_LookupStep(i) ==
    LET r == reqs[i]
        r2 == reqs'[i]
    IN
    (r.op \in ById /\ r.pc = "find" /\ r2.pc # "find") =>
        /\ r.id \in MalformedIds =>
              Done(r2) /\ r2.status = 400 /\ r2.calls = 0 /\ db' = db
        /\ (WellFormed(r.id) /\ ObjectId(r.id) \notin DOMAIN db[r.kind]) =>
              Done(r2) /\ r2.status = 404 /\ r2.calls = 1 /\ db' = db
        /\ WellFormed(r.id) => ~(Done(r2) /\ r2.status = 400)

\* C8: the lookup step of a get, an update or a delete answers 400 to a
\* malformed identifier, having issued no store call, and 404 to a
\* well-formed identifier no document has; a well-formed identifier is never
\* answered 400; the store is unchanged in both cases.
C8_MalformedVsNotFound == [][\A i \in Reqs : C8_LookupStep(i)]_vars

\* A malformed identifier was answered 400 and a well-formed one 404, by
\* requests of two operations.
C8_Witness ==
    \E i, j \in Reqs :
        /\ reqs[i].op \in ById /\ reqs[j].op \in ById /\ reqs[i].op # reqs[j].op
        /\ Done(reqs[i]) /\ reqs[i].id \in MalformedIds /\ reqs[i].status = 400
        /\ Done(reqs[j]) /\ WellFormed(reqs[j].id) /\ reqs[j].status = 404

CleanedKind(pc) ==
    CASE pc = "clean_players" -> "players"
      [] pc = "clean_teams" -> "teams"
      [] pc = "clean_matches" -> "matches"

TestIds(coll) == { o \in DOMAIN coll : MarkedTest(coll[o]) }

\* What one delete_many step of cleanup request i does.
C9_CleanupAct(i) ==
    LET r == reqs[i]
        r2 == reqs'[i]
    IN
    (r.op = "cleanup" /\ Active(r) /\ r2.pc # r.pc) =>
        LET k == CleanedKind(r.pc)
            removed == DOMAIN db[k] \ DOMAIN db'[k]
        IN
        /\ removed = TestIds(db[k])
        /\ DOMAIN db'[k] = DOMAIN db[k] \ removed
        /\ \A o \in DOMAIN db'[k] : db'[k][o] = db[k][o]
        /\ \A k2 \in Kinds \ {k} : db'[k2] = db[k2]
        /\ DOMAIN r2.resp = DOMAIN r.resp \cup {k}
        /\ r2.resp[k] = Cardinality(removed)
        /\ \A k2 \in DOMAIN r.resp : r2.resp[k2] = r.resp[k2]
        /\ Done(r2) =>
              /\ r2.status = 200
              /\ DOMAIN r2.resp = Kinds
              /\ i \notin conc => \A k2 \in Kinds : TestIds(db'[k2]) = {}

\* C9: each delete_many of a cleanup removes from its collection the
\* documents with is_test = true and no other, changes no document, and adds
\* to the response the number it removed; when no request overlapped the
\* cleanup, its 200 response leaves no test document in any collection.
C9_CleanupScope == [][\A i \in Reqs : C9_CleanupAct(i)]_vars

\* A cleanup that no request overlapped was answered 200 after a create: it
\* removed two players and one team, and the production documents are stored.
C9_Witness ==
    \E i \in Reqs \ conc :
        /\ reqs[i].op = "cleanup" /\ Done(reqs[i]) /\ reqs[i].status = 200
        /\ reqs[i].resp["players"] = 2 /\ reqs[i].resp["teams"] = 1
        /\ \A k \in Kinds : TestIds(db[k]) = {} /\ DOMAIN db[k] = {1}

\* C10: a cleanup whose delete_many on one collection fails still issues the
\* three deletions and answers with the per-collection result, not with one
\* overall failure.
C10_CleanupIndependent ==
    \A i \in Reqs :
        LET r == reqs[i] IN
        (r.op = "cleanup" /\ Done(r)) => (r.calls = 3 /\ r.status = 200)

\* ---- the list filters, as the specification defines them ----
TextParams == {"name", "position", "nationality", "country", "league", "stadium"}

\* The document's field f holds the value v (a null or missing field holds none).
FieldIs(doc, f, v) == f \in DOMAIN doc /\ doc[f] = Some(v)

\* The document's field f holds a number (it is there and is not null).
HasNumber(doc, f) == f \in DOMAIN doc /\ doc[f] # None

\* pat occurs in text as a substring, letter case ignored.
ContainsFold(text, pat) ==
    \E off \in 0..(Len(text) - Len(pat)) :
        \A q \in 1..Len(pat) : Lower(text[off + q]) = Lower(pat[q])

\* The predicate of the supplied parameter f = v of a list of `kind`.
ParamHolds(kind, f, v, doc) ==
    CASE f \in TextParams ->
           f \in DOMAIN doc /\ doc[f] # None /\ ContainsFold(doc[f][1], v)
      [] f = "team_id" /\ kind = "matches" ->
           FieldIs(doc, "home_team_id", v) \/ FieldIs(doc, "away_team_id", v)
      [] f = "team_id" /\ kind # "matches" -> FieldIs(doc, f, v)
      [] f \in {"home_team_id", "away_team_id"} -> FieldIs(doc, f, v)
      [] f = "min_age" -> HasNumber(doc, "age") /\ doc["age"][1] >= v
      [] f = "max_age" -> HasNumber(doc, "age") /\ doc["age"][1] <= v
      [] f = "date_from" -> HasNumber(doc, "date") /\ doc["date"][1] >= v
      [] f = "date_to" -> HasNumber(doc, "date") /\ doc["date"][1] <= v
      [] f = "is_test" -> "is_test" \in DOMAIN doc /\ doc["is_test"] = v

FilterNames(p) == DOMAIN p \ {"limit", "skip"}

\* The document satisfies every supplied parameter of p.
Satisfies(kind, p, doc) ==
    \A f \in FilterNames(p) : p[f] # None => ParamHolds(kind, f, p[f][1], doc)

\* A list request that was answered.
ListOk(r) == r.op = "list" /\ Done(r) /\ r.status = 200

\* The identifiers of the records a list response carries.
ReturnedIds(r) == { r.resp[n]["_id"] : n \in 1..Len(r.resp) }

\* The whole result is asked for: skip = 0 and limit >= the collection size.
Unpaged(r) == r.body.skip = 0 /\ r.body.limit >= Cardinality(DOMAIN db[r.kind])

\* The identifiers, as texts, of the stored documents of `kind` that satisfy P.
IdsWhere(kind, P(_)) == { OidStr(o) : o \in { x \in DOMAIN db[kind] : P(db[kind][x]) } }

\* C11: a list answered with skip = 0 and limit >= the collection size
\* returns exactly the stored records that satisfy the predicate of every
\* supplied parameter (case-insensitive substring for texts, equality for
\* identifiers and is_test, inclusive bounds for ranges).
C11_FilterConjunction ==
    \A i \in Reqs :
        LET r == reqs[i]
            Sat(doc) == Satisfies(r.kind, r.body, doc)
        IN  (ListOk(r) /\ Unpaged(r)) => ReturnedIds(r) = IdsWhere(r.kind, Sat)

\* The range parameters of a kind and the field they bound.
RangeField(kind) == IF kind = "players" THEN "age" ELSE "date"
LowerParam(kind) == IF kind = "players" THEN "min_age" ELSE "date_from"
UpperParam(kind) == IF kind = "players" THEN "max_age" ELSE "date_to"

\* The parameters of p that are supplied.
SuppliedParams(p) == { f \in FilterNames(p) : p[f] # None }

\* The request supplies range parameters (one or both) and nothing else.
OnlyRange(r) ==
    /\ r.kind \in {"players", "matches"}
    /\ SuppliedParams(r.body) # {}
    /\ SuppliedParams(r.body) \subseteq {LowerParam(r.kind), UpperParam(r.kind)}

\* The document's value lies within the bounds the request supplies.
WithinBounds(r, doc) ==
    LET lo == r.body[LowerParam(r.kind)]
        hi == r.body[UpperParam(r.kind)]
        f == RangeField(r.kind)
    IN  /\ HasNumber(doc, f)
        /\ lo # None => doc[f][1] >= lo[1]
        /\ hi # None => doc[f][1] <= hi[1]

\* C12: a list that supplies only min_age / max_age (players) or date_from /
\* date_to (matches) returns exactly the records whose value is >= the lower
\* bound when one is supplied and <= the upper bound when one is supplied:
\* both hold together when both are supplied, and a bound of 0 is enforced.
C12_InclusiveRange ==
    \A i \in Reqs :
        LET r == reqs[i]
            In(doc) == WithinBounds(r, doc)
        IN  (ListOk(r) /\ Unpaged(r) /\ OnlyRange(r)) =>
                ReturnedIds(r) = IdsWhere(r.kind, In)

\* min_age = 20 & max_age = 30 returned the two players aged 25, and neither
\* the player aged 0 nor the one without an age.
C12_Witness ==
    \E i \in Reqs :
        LET r == reqs[i] IN
        /\ ListOk(r) /\ r.kind = "players" /\ OnlyRange(r)
        /\ r.body.min_age = Some(20) /\ r.body.max_age = Some(30)
        /\ ReturnedIds(r) = {OidStr(1), OidStr(2)}
        /\ FieldIs(db["players"][3], "age", 0)

TeamParams == {"team_id", "home_team_id", "away_team_id"}

\* The parameters p with the three team filters taken out.
WithoutTeams(p) == [f \in DOMAIN p |-> IF f \in TeamParams THEN None ELSE p[f]]

\* The matches the request's other filters (stadium, dates, is_test) select.
OtherFiltersSelect(r) == Matching(db["matches"], BuildQuery("matches", WithoutTeams(r.body)))

\* The match satisfies the team filters of p that Constrains(value) holds of.
TeamFiltersHold(p, doc, Constrains(_)) ==
    /\ Constrains(p.team_id) =>
          FieldIs(doc, "home_team_id", p.team_id[1])
              \/ FieldIs(doc, "away_team_id", p.team_id[1])
    /\ Constrains(p.home_team_id) => FieldIs(doc, "home_team_id", p.home_team_id[1])
    /\ Constrains(p.away_team_id) => FieldIs(doc, "away_team_id", p.away_team_id[1])

IsSupplied(v) == v # None
IsSuppliedText(v) == v # None /\ v[1] # NoText

\* The matches a list must return when the team filters that Constrains
\* holds of are ANDed with the other filters.
TeamsAnded(r, Constrains(_)) ==
    { OidStr(o) : o \in { x \in OtherFiltersSelect(r) :
                            TeamFiltersHold(r.body, db["matches"][x], Constrains) } }

WithoutIsTest(p) == [p EXCEPT !.is_test = None]

\* The string parameters of p are plain: none is the empty text and no text
\* filter holds a character a regular expression reads as an operator.
PlainParams(p) ==
    /\ \A f \in FilterNames(p) \cap (TextParams \cup TeamParams) :
          p[f] # None => p[f][1] # NoText
    /\ \A f \in FilterNames(p) \cap TextParams :
          p[f] # None => \A q \in 1..Len(p[f][1]) : p[f][1][q] # "."

\* C14: a list that supplies is_test = b (true or false) returns, of the
\* records its other filters select, exactly those whose is_test equals b,
\* so none with is_test = true when b is false; a list that omits is_test
\* returns every record that satisfies its other filters, test or not.
C14_IsTestEquality ==
    \A i \in Reqs :
        LET r == reqs[i]
            p == r.body
            coll == db[r.kind]
            Sat(doc) == Satisfies(r.kind, p, doc)
        IN  (ListOk(r) /\ Unpaged(r)) =>
               IF p.is_test # None
               THEN /\ ReturnedIds(r) =
                         { OidStr(o) : o \in
                             { x \in Matching(coll, BuildQuery(r.kind, WithoutIsTest(p))) :
                                 "is_test" \in DOMAIN coll[x]
                                     /\ coll[x]["is_test"] = p.is_test[1] } }
                    /\ p.is_test = Some(FALSE) =>
                          \A n \in 1..Len(r.resp) : r.resp[n]["is_test"] = FALSE
               ELSE PlainParams(p) => ReturnedIds(r) = IdsWhere(r.kind, Sat)

\* is_test = false alone returned the one player stored with is_test false,
\* and none of the three test players.
C14_Witness ==
    \E i \in Reqs :
        LET r == reqs[i] IN
        /\ ListOk(r) /\ r.kind = "players"
        /\ SuppliedParams(r.body) = {"is_test"} /\ r.body.is_test = Some(FALSE)
        /\ ReturnedIds(r) = {OidStr(1)}
        /\ Cardinality(TestIds(db["players"])) = 3

\* The stored documents the request's query selects.
Selected(r) == Matching(db[r.kind], BuildQuery(r.kind, r.body))

\* min(limit, max(0, m - skip))
PageSize(m, skip, limit) ==
    LET rest == IF m > skip THEN m - skip ELSE 0
    IN  IF limit < rest THEN limit ELSE rest

\* C15: a list returns records its filter selects, each as it is stored
\* (with the identifier as text), none twice, and min(limit, max(0, m - skip))
\* of them, m being the number of records the filter selects; the list has
\* issued one store call and the store is as it was.
C15_Pagination ==
    \A i \in Reqs :
        LET r == reqs[i]
            coll == db[r.kind]
        IN  ListOk(r) =>
              /\ r.body.limit \in 1..1000 /\ r.body.skip >= 0
              /\ Len(r.resp) =
                    PageSize(Cardinality(Selected(r)), r.body.skip, r.body.limit)
              /\ Cardinality(ReturnedIds(r)) = Len(r.resp)
              /\ \A n \in 1..Len(r.resp) :
                    \E o \in Selected(r) :
                        /\ r.resp[n]["_id"] = OidStr(o)
                        /\ \A f \in DOMAIN coll[o] : r.resp[n][f] = coll[o][f]
                        /\ DOMAIN r.resp[n] = DOMAIN coll[o] \cup {"_id"}
              /\ r.calls = 1
              /\ db = db0

\* Of the three test players, skip = 1 and limit = 3 returned two, and all
\* four players are stored.
C15_Witness ==
    \E i \in Reqs :
        LET r == reqs[i] IN
        /\ ListOk(r) /\ r.kind = "players"
        /\ r.body.is_test = Some(TRUE) /\ r.body.skip = 1 /\ r.body.limit = 3
        /\ Cardinality(Selected(r)) = 3
        /\ Len(r.resp) = 2
        /\ ReturnedIds(r) \subseteq {OidStr(2), OidStr(3), OidStr(4)}
        /\ Cardinality(DOMAIN db["players"]) = 4

\* C16: an update answered 200 carries a record in its response, the one
\* with the request's identifier, also when a delete or a cleanup removes
\* the record between the update's store calls.
C16_UpdateReturnsRecord ==
    \A i \in Reqs :
        LET r == reqs[i] IN
        UpdateOk(r) => (r.resp # None /\ r.resp[1]["_id"] = r.id)

\* C17: a get, an update or a delete on a well-formed identifier one of whose
\* store calls failed is answered with a server error (5xx), not 400, 403 or
\* 404, and has modified no document.
C17_StoreFailureIsServerError ==
    \A i \in Reqs :
        LET r == reqs[i] IN
        (r.op \in ById /\ Done(r) /\ r.store_error /\ WellFormed(r.id)) =>
            /\ r.status >= 500
            /\ r.write_no = 0

\* The document as it was first stored (seeded, or inserted by a create).
Original(k, o) == IF <<k, o>> \in DOMAIN born THEN born[<<k, o>>] ELSE db0[k][o]

\* The updates whose update_one has modified document o of k and set field f.
Writers(k, o, f) ==
    { i \in Reqs : /\ reqs[i].op = "update" /\ reqs[i].kind = k
                   /\ WellFormed(reqs[i].id) /\ ObjectId(reqs[i].id) = o
                   /\ reqs[i].write_no > 0
                   /\ f \in Supplied(reqs[i].body) }

\* The one of them that wrote last.
LastWriter(W) == CHOOSE i \in W : \A j \in W : reqs[j].write_no <= reqs[i].write_no

\* C18: every field of a stored test record holds the value supplied by the
\* last update_one that set it, or its original value when no update set it;
\* and an update that passed its guard is answered 200, whatever other
\* update wrote to the record meanwhile.
C18_LastWriteWins ==
    /\ \A k \in Kinds : \A o \in DOMAIN db[k] :
          MarkedTest(db[k][o]) =>
              \A f \in ModelFields(k) :
                  LET W == Writers(k, o, f) IN
                  IF W = {} THEN db[k][o][f] = Original(k, o)[f]
                  ELSE db[k][o][f] = reqs[LastWriter(W)].body[f]
    /\ \A i \in Reqs :
          (reqs[i].op = "update" /\ Done(reqs[i]) /\ reqs[i].calls >= 2) =>
              reqs[i].status = 200

\* Two updates of one record overlapped and were both answered 200; the one
\* that arrived first wrote last.  The field both supply holds the value of
\* the last write, the field one of them supplies holds that value, and a
\* field none supplies holds its original value.
C18_Witness ==
    \E k \in Kinds : \E o \in DOMAIN db[k] :
        /\ {1, 2} \subseteq conc
        /\ \A i \in {1, 2} :
              /\ UpdateOk(reqs[i]) /\ reqs[i].kind = k /\ reqs[i].id = OidStr(o)
        /\ reqs[1].write_no = 2 /\ reqs[2].write_no = 1
        /\ \E f \in Supplied(reqs[1].body) \cap Supplied(reqs[2].body) :
              /\ reqs[1].body[f] # reqs[2].body[f]
              /\ db[k][o][f] = reqs[1].body[f]
        /\ \E f \in Supplied(reqs[2].body) \ Supplied(reqs[1].body) :
              db[k][o][f] = reqs[2].body[f]
        /\ \E f \in ModelFields(k) \ (Supplied(reqs[1].body) \cup Supplied(reqs[2].body)) :
              db[k][o][f] = Original(k, o)[f] /\ db[k][o][f] # None

\* Every document other than o of collection k is stored in the next state
\* as it is now, and no document is added.
OthersUnchanged(k, o) ==
    \A k2 \in Kinds :
        /\ DOMAIN db'[k2] \subseteq DOMAIN db[k2]
        /\ \A o2 \in DOMAIN db[k2] :
              (k2 # k \/ o2 # o) => (o2 \in DOMAIN db'[k2] /\ db'[k2][o2] = db[k2][o2])

\* What a step of update or delete request i does to the store.
C19_MutationStep(i) ==
    LET r == reqs[i]
        r2 == reqs'[i]
    IN
    (r.op \in {"update", "delete"} /\ Active(r) /\ r2.pc # r.pc) =>
        IF r.pc \in {"write", "remove"}
        THEN /\ OthersUnchanged(r.kind, ObjectId(r.id))
             /\ r.pc = "remove" => ObjectId(r.id) \notin DOMAIN db'[r.kind]
        ELSE db' = db

\* C19: the update_one of an update and the delete_one of a delete change no
\* document but the addressed one, in any collection, and add none; the
\* lookups of these requests change nothing.  So the delete of a team leaves
\* the players and matches that carry its identifier as they were.
C19_OnlyAddressedRecord == [][\A i \in Reqs : C19_MutationStep(i)]_vars

\* The test team was deleted (200) and a match that refers to it was updated
\* (200): the player that refers to the team and the other match are stored
\* as they were, and the updated match still refers to the team.
C19_Witness ==
    /\ <<"teams", 2>> \in deletedOk
    /\ 2 \notin DOMAIN db["teams"]
    /\ 2 \in DOMAIN db["players"] /\ db["players"][2] = db0["players"][2]
    /\ FieldIs(db["players"][2], "team_id", OidStr(2))
    /\ \E i \in Reqs :
          /\ UpdateOk(reqs[i]) /\ reqs[i].kind = "matches" /\ reqs[i].id = OidStr(2)
          /\ reqs[i].write_no > 0
    /\ 1 \in DOMAIN db["matches"] /\ db["matches"][1] = db0["matches"][1]
    /\ 2 \in DOMAIN db["matches"] /\ db["matches"][2] # db0["matches"][2]
    /\ FieldIs(db["matches"][2], "away_team_id", OidStr(2))
====
